---- MODULE Spec2Model ----
(***************************************************************************)
(* A model of the CHIP-8 interpreter of src/src/chip.rs, driven as         *)
(* src/src/main.rs drives it: new(), load(image), reset(), then tick()     *)
(* again and again.  A panic of the Rust code ends the run; the model      *)
(* keeps the state the machine had when the panic was raised and records   *)
(* which panic it was in fault.                                            *)
(***************************************************************************)
EXTENDS Integers, Sequences, FiniteSets

VARIABLES
    screen,          \* Chip::screen: [bool; 64*32], as the set of the indices that hold true
    memory,          \* Chip::memory: [u8; 0x1000], as the function of its bytes that are not 0
    v,               \* Chip::v: [u8; 0x10]
    i,               \* Chip::i: u16
    delay_timer,     \* Chip::delay_timer: u16
    sound_timer,     \* Chip::sound_timer: u16
    stack,           \* Chip::stack: [u16; 16]
    sp,              \* Chip::sp: usize
    pc,              \* Chip::pc: u16
    inst,            \* the local inst of the last tick(), NoInst when it fetched none
    fault,           \* "none", or the panic that ended the run
    phase,           \* position of main(): "new", "loaded", "running"
    overflow_checks, \* the build: TRUE when integer overflow panics (debug profile)
    calls,           \* history: return addresses of the CALLs of the current nest
    rets,            \* history: number of RETs executed since the last of those CALLs
    saved            \* history: the registers and I at the last LD [I],Vx still in force

chipvars == <<screen, memory, v, i, delay_timer, sound_timer, stack, sp, pc>>
vars == <<screen, memory, v, i, delay_timer, sound_timer, stack, sp, pc,
          inst, fault, phase, overflow_checks, calls, rets, saved>>

----------------------------------------------------------------------------
(* Sizes fixed by the struct Chip and by load()/reset(). *)

ScreenW == 64
ScreenH == 32
ScreenSize == ScreenW * ScreenH
MemSize == 4096
NumRegs == 16
StackSize == 16
ProgStart == 512
U8 == 256
U16 == 65536
NoInst == -1

(* Bounds of the program images the model loads. *)
MaxSmall == 0
MaxReg == 1
MaxChain == 17

----------------------------------------------------------------------------
(* Integer helpers. *)

Min(a, b) == IF a < b THEN a ELSE b
Max(a, b) == IF a > b THEN a ELSE b

\* Bitwise operators of u8, bit by bit from the least significant one.
RECURSIVE BitOp(_, _, _, _)
BitOp(op, a, b, n) ==
    IF n = 0 THEN 0
    ELSE LET x == a % 2
             y == b % 2
             r == CASE op = "or"  -> IF x + y > 0 THEN 1 ELSE 0
                    [] op = "and" -> x * y
                    [] op = "xor" -> (x + y) % 2
         IN r + 2 * BitOp(op, a \div 2, b \div 2, n - 1)

\* a += b on a u16: the sum, or a panic when it overflows and the build checks
\* overflow; without the checks it wraps.
add_u16(a, b, oc) ==
    IF a + b < U16 THEN [ok |-> TRUE, val |-> a + b]
    ELSE IF oc THEN [ok |-> FALSE, val |-> a]
    ELSE [ok |-> TRUE, val |-> (a + b) % U16]

\* a -= b on a usize.  A wrapped result 2^64 + (a - b) does not fit the
\* model checker's integers and is written as the negative number a - b.
sub_usize(a, b, oc) ==
    IF a >= b THEN [ok |-> TRUE, val |-> a - b]
    ELSE IF oc THEN [ok |-> FALSE, val |-> a]
    ELSE [ok |-> TRUE, val |-> a - b]

\* Fields of the instruction word.
nib_x(w) == (w \div 256) % 16
nib_y(w) == (w \div 16) % 16
nib_n(w) == w % 16
low_kk(w) == w % 256
low_addr(w) == w % 4096
top(w) == w \div 4096

----------------------------------------------------------------------------
(* The two big arrays.  The memory is kept as the function from the        *)
(* addresses of its non-zero bytes to those bytes, the screen as the set   *)
(* of the indices of its true pixels; the index checks of the arrays are   *)
(* made where the code indexes them.                                       *)

mem_zero == [a \in {} |-> 0]

mem_get(m, a) == IF a \in DOMAIN m THEN m[a] ELSE 0

\* the memory m with the bytes bs written at the addresses DOMAIN bs
mem_put(m, bs) ==
    LET keep == {a \in (DOMAIN m) \cup (DOMAIN bs) :
                   (IF a \in DOMAIN bs THEN bs[a] ELSE m[a]) # 0}
    IN [a \in keep |-> IF a \in DOMAIN bs THEN bs[a] ELSE m[a]]

px_get(scr, k) == k \in scr

px_put(scr, k, b) == IF b THEN scr \cup {k} ELSE scr \ {k}

----------------------------------------------------------------------------
(* The machine as one record, and the outcome of a step on it. *)

chip == [screen |-> screen, memory |-> memory, v |-> v, i |-> i,
         delay_timer |-> delay_timer, sound_timer |-> sound_timer,
         stack |-> stack, sp |-> sp, pc |-> pc]

Ok(c) == [c |-> c, fault |-> "none"]
Fail(c, f) == [c |-> c, fault |-> f]

\* Chip::new
new == [screen |-> {},
        memory |-> mem_zero,
        v |-> [r \in 0..(NumRegs - 1) |-> 0],
        i |-> 0, delay_timer |-> 0, sound_timer |-> 0,
        stack |-> [s \in 0..(StackSize - 1) |-> 0],
        sp |-> 0, pc |-> 0]

\* Chip::load, after the file was read: program is the file's bytes.
load(c, program) ==
    LET zero == [c EXCEPT !.memory = mem_zero]
    IN IF ProgStart + Len(program) > MemSize THEN Fail(zero, "slice")
       ELSE Ok([zero EXCEPT !.memory =
                  mem_put(mem_zero,
                          [a \in ProgStart..(ProgStart + Len(program) - 1) |->
                             program[a - ProgStart + 1]])])

\* Chip::reset
reset(c) ==
    [c EXCEPT !.v = [r \in 0..(NumRegs - 1) |-> 0],
              !.i = 0,
              !.delay_timer = 0,
              !.sound_timer = 0,
              !.stack = [s \in 0..(StackSize - 1) |-> 0],
              !.sp = 0,
              !.pc = ProgStart]

\* Chip::next_instruction
next_instruction(c, oc) ==
    LET p == c.pc
        adv == add_u16(c.pc, 2, oc)
        c1 == [c EXCEPT !.pc = adv.val]
    IN IF ~adv.ok THEN [c |-> c, inst |-> NoInst, fault |-> "overflow"]
       ELSE IF p + 2 > MemSize THEN [c |-> c1, inst |-> NoInst, fault |-> "slice"]
       ELSE [c |-> c1, inst |-> mem_get(c.memory, p) * 256 + mem_get(c.memory, p + 1),
             fault |-> "none"]

----------------------------------------------------------------------------
(* The instructions, one operator per arm of tick(). *)

\* skip with the bug of a step of one byte
skip_by_one(c, oc) ==
    LET adv == add_u16(c.pc, 1, oc)
    IN IF adv.ok THEN Ok([c EXCEPT !.pc = adv.val]) ELSE Fail(c, "overflow")

\* self.pc += 2 of a taken skip
skip(c, oc) ==
    LET adv == add_u16(c.pc, 2, oc)
    IN IF adv.ok THEN Ok([c EXCEPT !.pc = adv.val]) ELSE Fail(c, "overflow")

cls(c) == Ok([c EXCEPT !.screen = {}])

\* ret with the bug of reading the slot before sp is decremented
ret_before_decrement(c, oc) ==
    LET s == sub_usize(c.sp, 1, oc)
    IN IF c.sp \notin 0..(StackSize - 1) THEN Fail(c, "index")
       ELSE IF ~s.ok THEN Fail([c EXCEPT !.pc = c.stack[c.sp]], "overflow")
       ELSE Ok([c EXCEPT !.pc = c.stack[c.sp], !.sp = s.val])

ret(c, oc) ==
    LET s == sub_usize(c.sp, 1, oc)
        c1 == [c EXCEPT !.sp = s.val]
    IN IF ~s.ok THEN Fail(c, "overflow")
       ELSE IF s.val \notin 0..(StackSize - 1) THEN Fail(c1, "index")
       ELSE Ok([c1 EXCEPT !.pc = c.stack[s.val]])

\* jp with the bug of a target that keeps the opcode's top nibble
jp_unmasked(c, w) == Ok([c EXCEPT !.pc = w])

\* jp with the bug of a target one instruction too far
jp_next(c, w) == Ok([c EXCEPT !.pc = low_addr(w) + 2])

jp(c, w) == Ok([c EXCEPT !.pc = low_addr(w)])

call(c, w) ==
    IF c.sp \notin 0..(StackSize - 1) THEN Fail(c, "index")
    ELSE Ok([c EXCEPT !.stack[c.sp] = c.pc, !.sp = c.sp + 1, !.pc = low_addr(w)])

se_byte(c, w, oc) == IF c.v[nib_x(w)] = low_kk(w) THEN skip(c, oc) ELSE Ok(c)

sne_byte(c, w, oc) == IF c.v[nib_x(w)] # low_kk(w) THEN skip(c, oc) ELSE Ok(c)

se_reg(c, w, oc) == IF c.v[nib_x(w)] = c.v[nib_y(w)] THEN skip(c, oc) ELSE Ok(c)

sne_reg(c, w, oc) == IF c.v[nib_x(w)] # c.v[nib_y(w)] THEN skip(c, oc) ELSE Ok(c)

ld_byte(c, w) == Ok([c EXCEPT !.v[nib_x(w)] = low_kk(w)])

\* add_byte with the bug of setting the carry flag as ADD Vx,Vy does
add_byte_carry(c, w) ==
    LET sum == c.v[nib_x(w)] + low_kk(w)
    IN Ok([c EXCEPT !.v = [[c.v EXCEPT ![nib_x(w)] = sum % U8]
                             EXCEPT ![15] = IF sum >= U8 THEN 1 ELSE 0]])

add_byte(c, w) == Ok([c EXCEPT !.v[nib_x(w)] = (c.v[nib_x(w)] + low_kk(w)) % U8])

\* self.v[x] = val; self.v[0xF] = flag;  in this order
set_vx_vf(c, x, val, flag) ==
    [c EXCEPT !.v = [[c.v EXCEPT ![x] = val] EXCEPT ![15] = flag]]

\* add_reg with the bug of a carry that needs a sum above 256
add_reg_late_carry(c, x, y) ==
    LET sum == c.v[x] + c.v[y]
    IN Ok([c EXCEPT !.v = [[c.v EXCEPT ![x] = sum % U8]
                             EXCEPT ![15] = IF sum > U8 THEN 1 ELSE 0]])

add_reg(c, x, y) ==
    LET sum == c.v[x] + c.v[y]
    IN Ok(set_vx_vf(c, x, sum % U8, IF sum >= U8 THEN 1 ELSE 0))

\* sub_reg with the bug of a strict comparison
sub_reg_strict(c, x, y) ==
    LET sub_cmp == c.v[x] > c.v[y]
        val == (c.v[x] - c.v[y]) % U8
    IN Ok([c EXCEPT !.v = [[c.v EXCEPT ![x] = val]
                             EXCEPT ![15] = IF sub_cmp THEN 1 ELSE 0]])

sub_reg(c, x, y) ==
    LET sub_cmp == c.v[x] >= c.v[y]
        val == (c.v[x] - c.v[y]) % U8
    IN Ok(set_vx_vf(c, x, val, IF sub_cmp THEN 1 ELSE 0))

\* shr with the bug of shifting V[x] in place
shr_in_place(c, x, y) ==
    LET carry == c.v[x] % 2
    IN Ok([c EXCEPT !.v = [[c.v EXCEPT ![x] = c.v[x] \div 2] EXCEPT ![15] = carry]])

shr(c, x, y) ==
    LET carry == c.v[y] % 2
    IN Ok(set_vx_vf(c, x, c.v[y] \div 2, carry))

subn_reg(c, x, y) ==
    LET sub_cmp == c.v[y] >= c.v[x]
        val == (c.v[y] - c.v[x]) % U8
    IN Ok(set_vx_vf(c, x, val, IF sub_cmp THEN 1 ELSE 0))

shl(c, x, y) ==
    LET carry == (c.v[y] \div 128) % 2
    IN Ok(set_vx_vf(c, x, (c.v[y] * 2) % U8, carry))

\* the arm (inst & 0xF000) == 0x8000
alu(c, w) ==
    LET x == nib_x(w)
        y == nib_y(w)
        op == nib_n(w)
    IN CASE op = 0 -> Ok([c EXCEPT !.v[x] = c.v[y]])
         [] op = 1 -> Ok([c EXCEPT !.v[x] = BitOp("or", c.v[x], c.v[y], 8)])
         [] op = 2 -> Ok([c EXCEPT !.v[x] = BitOp("and", c.v[x], c.v[y], 8)])
         [] op = 3 -> Ok([c EXCEPT !.v[x] = BitOp("xor", c.v[x], c.v[y], 8)])
         [] op = 4 -> add_reg(c, x, y)
         [] op = 5 -> sub_reg(c, x, y)
         [] op = 6 -> shr(c, x, y)
         [] op = 7 -> subn_reg(c, x, y)
         [] op = 14 -> shl(c, x, y)
         [] OTHER -> Fail(c, "todo")

\* sprite_bit with the bug of taking the bits from the least significant one
sprite_bit_lsb_first(byte, col) == (byte \div (2 ^ col)) % 2 = 1

\* bit (7 - col) of byte
sprite_bit(byte, col) == (byte \div (2 ^ (7 - col))) % 2 = 1

\* The inner loop of DRW from column col on: XOR the bits of byte into
\* screen[offset + col ..], stopping at the first index outside the screen.
RECURSIVE drw_cols(_, _, _, _)
drw_cols(scr, byte, offset, col) ==
    IF col = 8 THEN [screen |-> scr, fault |-> "none"]
    ELSE IF offset + col >= ScreenSize THEN [screen |-> scr, fault |-> "index"]
    ELSE drw_cols(px_put(scr, offset + col,
                         px_get(scr, offset + col) # sprite_bit(byte, col)),
                  byte, offset, col + 1)

\* The outer loop of DRW from row on.
RECURSIVE drw_rows(_, _, _, _, _)
drw_rows(c, x, y, nibble, row) ==
    IF row = nibble THEN Ok(c)
    ELSE IF c.i + row >= MemSize THEN Fail(c, "index")
    ELSE LET byte == mem_get(c.memory, c.i + row)
             offset == (row + y) * ScreenW + x
             r == drw_cols(c.screen, byte, offset, 0)
             c1 == [c EXCEPT !.screen = r.screen]
         IN IF r.fault # "none" THEN Fail(c1, r.fault)
            ELSE drw_rows(c1, x, y, nibble, row + 1)

drw(c, w) == drw_rows(c, c.v[nib_x(w)], c.v[nib_y(w)], nib_n(w), 0)

\* add_i with the bug of a sum cut to the 12 bits of an address
add_i_masked(c, w, oc) ==
    LET s == add_u16(c.i, c.v[nib_x(w)], oc)
    IN IF s.ok THEN Ok([c EXCEPT !.i = s.val % 4096]) ELSE Fail(c, "overflow")

add_i(c, w, oc) ==
    LET s == add_u16(c.i, c.v[nib_x(w)], oc)
    IN IF s.ok THEN Ok([c EXCEPT !.i = s.val]) ELSE Fail(c, "overflow")

\* store with the bug of checking every address before the first write
store_checked(c, addr, bytes) ==
    IF addr + Len(bytes) > MemSize THEN Fail(c, "index")
    ELSE Ok([c EXCEPT !.memory =
               mem_put(c.memory,
                       [a \in addr..(addr + Len(bytes) - 1) |-> bytes[a - addr + 1]])])

\* memory[addr + k] = bytes[k + 1] for k = 0, 1, ... in turn, up to the first
\* address outside the memory.
store(c, addr, bytes) ==
    LET n == Min(Len(bytes), Max(0, MemSize - addr))
        c1 == [c EXCEPT !.memory =
                 mem_put(c.memory, [a \in addr..(addr + n - 1) |-> bytes[a - addr + 1]])]
    IN IF n < Len(bytes) THEN Fail(c1, "index") ELSE Ok(c1)

\* ld_b with the bug of the digits stored one byte too far
ld_b_shifted(c, w) ==
    LET x == c.v[nib_x(w)]
    IN store(c, c.i + 1, <<x \div 100, (x % 100) \div 10, x % 10>>)

\* ld_b with the bug of the digits stored units first
ld_b_reversed(c, w) ==
    LET x == c.v[nib_x(w)]
    IN store(c, c.i, <<x % 10, (x % 100) \div 10, x \div 100>>)

ld_b(c, w) ==
    LET x == c.v[nib_x(w)]
    IN store(c, c.i, <<x \div 100, (x % 100) \div 10, x % 10>>)

\* ld_i_vx with the bug of a loop that stops before Vx
ld_i_vx_short(c, w) ==
    store(c, c.i, [k \in 1..nib_x(w) |-> c.v[k - 1]])

ld_i_vx(c, w) ==
    store(c, c.i, [k \in 1..(nib_x(w) + 1) |-> c.v[k - 1]])

ld_vx_i(c, w) ==
    LET x == nib_x(w)
        addr == c.i
        n == Min(x + 1, Max(0, MemSize - addr))
        c1 == [c EXCEPT !.v = [r \in 0..(NumRegs - 1) |->
                                 IF r < n THEN mem_get(c.memory, addr + r) ELSE c.v[r]]]
    IN IF n < x + 1 THEN Fail(c1, "index") ELSE Ok(c1)

\* unknown with the bug of arms for LD DT,Vx and LD ST,Vx
unknown_sets_timers(c, w) ==
    IF top(w) = 15 /\ low_kk(w) = \H15
    THEN Ok([c EXCEPT !.delay_timer = c.v[nib_x(w)]])
    ELSE IF top(w) = 15 /\ low_kk(w) = \H18
    THEN Ok([c EXCEPT !.sound_timer = c.v[nib_x(w)]])
    ELSE Fail(c, "panic")

\* The last arm of the match: a word of no instruction.
unknown(c, w) == Fail(c, "panic")

\* The cascade of tick() on the fetched word w.
execute(c, w, oc) ==
    IF w = \H00E0 THEN cls(c)
    ELSE IF w = \H00EE THEN ret(c, oc)
    ELSE IF top(w) = 1 THEN jp(c, w)
    ELSE IF top(w) = 2 THEN call(c, w)
    ELSE IF top(w) = 3 THEN se_byte(c, w, oc)
    ELSE IF top(w) = 4 THEN sne_byte(c, w, oc)
    ELSE IF top(w) = 5 THEN se_reg(c, w, oc)
    ELSE IF top(w) = 6 THEN ld_byte(c, w)
    ELSE IF top(w) = 7 THEN add_byte(c, w)
    ELSE IF top(w) = 8 THEN alu(c, w)
    ELSE IF top(w) = 9 THEN sne_reg(c, w, oc)
    ELSE IF top(w) = 10 THEN Ok([c EXCEPT !.i = low_addr(w)])
    ELSE IF top(w) = 13 THEN drw(c, w)
    ELSE IF top(w) = 15 /\ low_kk(w) = \H1E THEN add_i(c, w, oc)
    ELSE IF top(w) = 15 /\ low_kk(w) = \H33 THEN ld_b(c, w)
    ELSE IF top(w) = 15 /\ low_kk(w) = \H55 THEN ld_i_vx(c, w)
    ELSE IF top(w) = 15 /\ low_kk(w) = \H65 THEN ld_vx_i(c, w)
    ELSE unknown(c, w)

\* tick with the bug of no alignment check
tick_unaligned(c, oc) ==
    LET f == next_instruction(c, oc)
    IN IF f.fault # "none" THEN f
       ELSE LET r == execute(f.c, f.inst, oc)
            IN [c |-> r.c, inst |-> f.inst, fault |-> r.fault]

\* Chip::tick
tick(c, oc) ==
    IF c.pc % 2 # 0 THEN [c |-> c, inst |-> NoInst, fault |-> "assert"]
    ELSE LET f == next_instruction(c, oc)
         IN IF f.fault # "none" THEN f
            ELSE LET r == execute(f.c, f.inst, oc)
                 IN [c |-> r.c, inst |-> f.inst, fault |-> r.fault]

----------------------------------------------------------------------------
(* The program images the model loads.  An image is the sequence of the    *)
(* file's bytes; the instruction words are stored big-endian.              *)

Bytes(ws) ==
    [k \in 1..(2 * Len(ws)) |->
       IF k % 2 = 1 THEN ws[(k + 1) \div 2] \div 256 ELSE ws[k \div 2] % 256]

Op(t, x, y, n) == t * 4096 + x * 256 + y * 16 + n
OpK(t, x, kk) == t * 4096 + x * 256 + kk

Vals == (0..MaxSmall) \cup {127, 128, 179} \cup ((255 - MaxSmall)..255)
Regs == (0..MaxReg) \cup {15}

\* LD Vx,a; LD Vy,b; then one register instruction on x, y.
Third(x, y) ==
    {Op(8, x, y, n) : n \in 0..15}
    \cup {OpK(t, x, kk) : t \in {3, 4, 7}, kk \in Vals}
    \cup {Op(t, x, y, n) : t \in {5, 9}, n \in {0, 1}}

AluPrograms ==
    UNION {{<<OpK(6, x, a), OpK(6, y, b), w>> : w \in Third(x, y)} :
             x \in Regs, y \in Regs, a \in Vals, b \in Vals}

\* Two words of control flow at 0x200 and 0x202.
CtlWords ==
    {\H00E0, \H00EE, \H1200, \H1202, \H1203, \H1204, \H2200, \H2202, \H2203,
     \H2204, \H3000, \H4000}

CtlPrograms == {<<a, b>> : a \in CtlWords, b \in CtlWords}

\* k nested subroutines: the i-th, at 0x200 + 4(i-1), calls the next one and
\* returns; the last one only returns.
Chain(k) ==
    [n \in 1..(2 * k + 1) |->
       IF n % 2 = 1 /\ n < 2 * k + 1 THEN \H2000 + ProgStart + 2 * (n + 1)
       ELSE \H00EE]

ChainPrograms == {Chain(k) : k \in 1..MaxChain}

\* An image that fills the memory: JP 0xFFE at 0x200 and w at 0xFFE.
TailImage(w) ==
    [n \in 1..((MemSize - ProgStart) \div 2) |->
       IF n = 1 THEN \H1FFE
       ELSE IF n = (MemSize - ProgStart) \div 2 THEN w ELSE 0]

TailPrograms == {TailImage(w) : w \in {\H00E0, \H3000, \H4000, \H2FFE, \HF01E}}

\* An image that fills the memory: JP 0xFFE at 0x200, RET at 0x202 and
\* CALL 0x202 at 0xFFE.
TailCallRet ==
    [n \in 1..((MemSize - ProgStart) \div 2) |->
       IF n = 1 THEN \H1FFE
       ELSE IF n = 2 THEN \H00EE
       ELSE IF n = (MemSize - ProgStart) \div 2 THEN \H2202 ELSE 0]

\* LD I,addr; LD Vx,a; then one instruction that uses I.
MemPrograms ==
    {<<\HA000 + addr, OpK(6, x, a), w>> :
        addr \in {\H200, \HFFD, \HFFE, \HFFF}, x \in Regs, a \in Vals,
        w \in {\HF01E, \HF133, \HFF33, \HF055, \HF155, \HFF55, \HF065, \HF165,
               \HFF65, \HF007, \HF015, \HF018, \HD000, \HD011, \HD102, \HD01F,
               \HB200, \HE09E}}

\* LD I,0x20C; LD Vx,a; LD V1,b; DRW Vx,V1,n; DRW Vx,V1,m; a word of no
\* instruction; the four sprite bytes F0 93 0F 01 at 0x20C.
DrawPrograms ==
    {<<\HA20C, OpK(6, x, a), OpK(6, 1, b), Op(13, x, 1, n), Op(13, x, 1, m), 0,
       \HF093, \H0F01>> :
        x \in {0, 15}, a \in {0, 56, 57, 60, 63}, b \in {0, 28, 30, 31},
        n \in {1, 2, 4}, m \in {0, 2}}

\* LD I,addr; LD V0,a; LD V1,b; LD [I],Vx; LD V0,c; one more instruction;
\* LD Vx,[I].
RoundPrograms ==
    {<<\HA000 + addr, OpK(6, 0, a), OpK(6, 1, b), OpK(15, x, \H55), OpK(6, 0, c),
       mid, OpK(15, x, \H65)>> :
        addr \in {\H200, \H300, \HFF0, \HFFE}, a \in {0, 7, 255}, b \in {1, 128},
        c \in {9, 255}, x \in {0, 1, 15}, mid \in {\H8104, \HF033, \HF01E}}

\* LD I,addr; LD V0,a; LD B,V0.
BcdPrograms ==
    {<<\HA000 + addr, OpK(6, 0, a), \HF033>> :
        addr \in {\H300, \HFFD}, a \in {9, 10, 99, 100, 199, 200, 234}}

\* CLS; LD V0,5; ADD V0,10; JP 0x206.
EndToEnd == <<\H00E0, \H6005, \H700A, \H1206>>

\* V0 = 128, then I += V0 for ever.
LoopPrograms == {<<\H6080, \HF01E, \H1202>>}

\* Single words, among them words of no instruction.
SinglePrograms ==
    {<<w>> : w \in {\H0000, \H00E1, \H0123, \H5001, \H9001, \H8008, \H800F,
                    \HB123, \HC0FF, \HE0A1, \HF00A, \HF015, \HF018, \HF029,
                    \HF11E, \HFFFF}}

Programs ==
    AluPrograms \cup CtlPrograms \cup ChainPrograms \cup TailPrograms
    \cup MemPrograms \cup DrawPrograms \cup RoundPrograms \cup BcdPrograms
    \cup {EndToEnd, TailCallRet}
    \cup LoopPrograms \cup SinglePrograms

\* An image one byte longer than the memory above 0x200.
TooLong == [k \in 1..(MemSize - ProgStart + 1) |-> 0]

Images == {Bytes(ws) : ws \in Programs} \cup {TooLong}

----------------------------------------------------------------------------
(* The history of the current nest of CALLs.  A nest starts with a CALL    *)
(* executed with sp = 0; calls holds, per CALL of the nest, the value pc   *)
(* had right after that CALL's fetch; rets counts the RETs executed after  *)
(* the last of them.  A CALL after a RET of the nest, or a RET beyond the  *)
(* nest, ends the nest.                                                    *)

nest(c, r) ==
    IF r.fault # "none" THEN [calls |-> calls, rets |-> rets]
    ELSE IF top(r.inst) = 2 THEN
        IF c.sp = 0 THEN [calls |-> <<c.pc + 2>>, rets |-> 0]
        ELSE IF calls # <<>> /\ rets = 0
             THEN [calls |-> Append(calls, c.pc + 2), rets |-> 0]
        ELSE [calls |-> <<>>, rets |-> 0]
    ELSE IF r.inst = \H00EE THEN
        IF calls # <<>> /\ rets < Len(calls) THEN [calls |-> calls, rets |-> rets + 1]
        ELSE [calls |-> <<>>, rets |-> 0]
    ELSE [calls |-> calls, rets |-> rets]

----------------------------------------------------------------------------
(* The history of the last register store.  An executed LD [I],Vx records  *)
(* x and the registers and I it started with; the record is dropped by the *)
(* first later instruction that changes I or one of the bytes              *)
(* memory[I..I+x].                                                         *)

no_save == [ok |-> FALSE, x |-> 0, i |-> 0, v |-> new.v]

keep(c, r) ==
    IF r.fault # "none" THEN saved
    ELSE IF top(r.inst) = 15 /\ low_kk(r.inst) = \H55
         THEN [ok |-> TRUE, x |-> nib_x(r.inst), i |-> c.i, v |-> c.v]
    ELSE IF /\ saved.ok
            /\ \/ r.c.i # c.i
               \/ \E k \in 0..saved.x :
                     mem_get(r.c.memory, saved.i + k) # mem_get(c.memory, saved.i + k)
         THEN no_save
    ELSE saved

----------------------------------------------------------------------------
(* The run of main(). *)

SetChip(c) ==
    /\ screen' = c.screen
    /\ memory' = c.memory
    /\ v' = c.v
    /\ i' = c.i
    /\ delay_timer' = c.delay_timer
    /\ sound_timer' = c.sound_timer
    /\ stack' = c.stack
    /\ sp' = c.sp
    /\ pc' = c.pc

Init ==
    /\ screen = new.screen
    /\ memory = new.memory
    /\ v = new.v
    /\ i = new.i
    /\ delay_timer = new.delay_timer
    /\ sound_timer = new.sound_timer
    /\ stack = new.stack
    /\ sp = new.sp
    /\ pc = new.pc
    /\ inst = NoInst
    /\ fault = "none"
    /\ phase = "new"
    /\ overflow_checks \in BOOLEAN
    /\ calls = <<>>
    /\ rets = 0
    /\ saved = no_save

\* chip.load(...): the file cannot be read, or its bytes are loaded.
Load ==
    /\ phase = "new"
    /\ fault = "none"
    /\ \/ /\ fault' = "expect"
          /\ UNCHANGED chipvars
       \/ \E program \in Images :
            LET r == load(chip, program)
            IN SetChip(r.c) /\ fault' = r.fault
    /\ phase' = "loaded"
    /\ UNCHANGED <<inst, overflow_checks, calls, rets, saved>>

\* chip.reset()
Reset ==
    /\ phase = "loaded"
    /\ fault = "none"
    /\ SetChip(reset(chip))
    /\ phase' = "running"
    /\ UNCHANGED <<inst, fault, overflow_checks, calls, rets, saved>>

\* chip.tick(), one turn of the loop of main().  The loop's count of 2000 turns
\* is not kept: a run may stop after any number of ticks.
Tick ==
    /\ phase = "running"
    /\ fault = "none"
    /\ LET r == tick(chip, overflow_checks)
           h == nest(chip, r)
       IN /\ SetChip(r.c)
          /\ inst' = r.inst
          /\ fault' = r.fault
          /\ calls' = h.calls
          /\ rets' = h.rets
          /\ saved' = keep(chip, r)
    /\ UNCHANGED <<phase, overflow_checks>>

Next == Load \/ Reset \/ Tick

Spec == Init /\ [][Next]_vars

----------------------------------------------------------------------------
(* Vocabulary of the properties. *)

\* A tick() can start: main() is in its loop and no panic has ended the run.
Running == phase = "running" /\ fault = "none"

\* A tick() started here passes the assert and reads its word inside the memory.
Fetching == Running /\ pc % 2 = 0 /\ pc <= MemSize - 2

\* The big-endian word at pc.
Word == mem_get(memory, pc) * 256 + mem_get(memory, pc + 1)

\* The last tick() executed the word it fetched to its end.
Executed == phase = "running" /\ fault = "none" /\ inst # NoInst

\* The skips of the opcode table that are taken in the current state.
TakenSkip(w) ==
    \/ top(w) = 3 /\ v[nib_x(w)] = low_kk(w)
    \/ top(w) = 4 /\ v[nib_x(w)] # low_kk(w)
    \/ top(w) = 5 /\ nib_n(w) = 0 /\ v[nib_x(w)] = v[nib_y(w)]
    \/ top(w) = 9 /\ nib_n(w) = 0 /\ v[nib_x(w)] # v[nib_y(w)]

\* The patterns of the opcode table.
InTable(w) ==
    \/ w = \H00E0
    \/ w = \H00EE
    \/ top(w) \in {1, 2, 3, 4, 6, 7, 10, 13}
    \/ top(w) \in {5, 9} /\ nib_n(w) = 0
    \/ top(w) = 8 /\ nib_n(w) \in (0..7) \cup {14}
    \/ top(w) = 15 /\ low_kk(w) \in {\H1E, \H33, \H55, \H65}

----------------------------------------------------------------------------
(* C1 as stated: in every state reachable from reset() by ticks, pc is     *)
(* even.                                                                   *)
C1_PcAlwaysEven == phase = "running" => pc % 2 = 0

(* C1, amended: in every state reachable from reset() by ticks, pc is even *)
(* unless the last tick executed a JP or a CALL to an odd address, which   *)
(* leaves pc at that odd address, or ended in the alignment fault on such  *)
(* a pc.                                                                   *)
C1_PcEvenUnlessOddJump ==
    (phase = "running" /\ pc % 2 = 1) =>
        \/ fault = "none" /\ inst # NoInst /\ top(inst) \in {1, 2} /\ pc = low_addr(inst)
        \/ fault = "assert" /\ inst = NoInst

C1_Witness == Executed /\ inst = \H1203 /\ pc = \H203

(* C2: a tick() started with pc even and pc <= 0xFFE decodes the word      *)
(* memory[pc]*256 + memory[pc+1]; after an instruction that is not JP,     *)
(* CALL, RET or a taken skip pc = old pc + 2, after a taken skip (3xkk,    *)
(* 4xkk, 5xy0, 9xy0) pc = old pc + 4, after JP addr pc = addr.             *)
C2_FetchAndAdvance ==
    [][Fetching =>
         /\ inst' = Word
         /\ (top(Word) \notin {1, 2} /\ Word # \H00EE /\ ~TakenSkip(Word)) => pc' = pc + 2
         /\ TakenSkip(Word) => pc' = pc + 4
         /\ top(Word) = 1 => pc' = low_addr(Word)]_vars

(* C3: tick() called with pc odd ends in the alignment fault; it fetches   *)
(* no instruction and leaves pc, registers, I, memory, stack, sp, timers   *)
(* and frame buffer as they were.                                          *)
C3_OddPcFaults ==
    [][(Running /\ pc % 2 = 1) =>
         (fault' = "assert" /\ inst' = NoInst /\ UNCHANGED chipvars)]_vars

C3_Witness == phase = "running" /\ fault = "assert" /\ pc % 2 = 1

(* C4: for every word that matches no pattern of the opcode table, tick()  *)
(* ends in the unimplemented-opcode fault and changes none of registers,   *)
(* I, memory, stack, sp, frame buffer.                                     *)
C4_UnknownOpcodeFaults ==
    [][(Fetching /\ ~InTable(Word)) =>
         /\ fault' \in {"panic", "todo"}
         /\ UNCHANGED <<v, i, memory, stack, sp, screen>>]_vars

(* C5: CALL and RET are LIFO: after k nested CALLs started with sp = 0,    *)
(* the j-th RET sets pc to the value pc had right after the fetch of the   *)
(* (k-j+1)-th CALL, and sp is 0 again after the k-th RET.                  *)
C5_CallRetLifo ==
    (Executed /\ inst = \H00EE /\ rets >= 1) =>
        /\ rets <= Len(calls)
        /\ pc = calls[Len(calls) - rets + 1]
        /\ rets = Len(calls) => sp = 0

C5_Witness ==
    /\ Executed /\ inst = \H00EE
    /\ Len(calls) = StackSize /\ rets = StackSize
    /\ Cardinality({calls[k] : k \in 1..Len(calls)}) = StackSize
    /\ pc = calls[1]

(* C6: in every state reachable from reset() by ticks 0 <= sp <= 16: a     *)
(* CALL with sp = 16 and a RET with sp = 0 end in a fault and do not move  *)
(* sp out of that range.                                                   *)
C6_SpInRange == phase = "running" => (sp >= 0 /\ sp <= StackSize)

\* A tick() started here executes the instruction 0x8xyn of the given n.
AluStep(n) == Fetching /\ top(Word) = 8 /\ nib_n(Word) = n

(* C7 as stated: for all x, y and a = V[x], b = V[y], after ADD Vx,Vy      *)
(* V[0xF] = 1 if a + b > 255 and 0 otherwise, and V[x] = (a + b) mod 256.  *)
C7_AddRegAllX ==
    [][AluStep(4) =>
         LET x == nib_x(Word)
             a == v[x]
             b == v[nib_y(Word)]
         IN /\ v'[15] = (IF a + b > 255 THEN 1 ELSE 0)
            /\ v'[x] = (a + b) % 256]_vars

(* C7, amended: after ADD Vx,Vy V[0xF] = 1 if a + b > 255 and 0 otherwise, *)
(* and V[x] = (a + b) mod 256 when x is not 0xF; with x = 0xF the flag     *)
(* overwrites the sum.  No register other than V[x] and V[0xF] changes.    *)
C7_AddReg ==
    [][AluStep(4) =>
         LET x == nib_x(Word)
             a == v[x]
             b == v[nib_y(Word)]
         IN /\ fault' = "none"
            /\ v'[15] = (IF a + b > 255 THEN 1 ELSE 0)
            /\ x # 15 => v'[x] = (a + b) % 256
            /\ \A r \in 0..14 : r # x => v'[r] = v[r]]_vars

C7_Witness ==
    Executed /\ inst = \H8014 /\ pc = \H206 /\ v[0] = 0 /\ v[1] = 128 /\ v[15] = 1

(* C8 as stated: for all x, y and a = V[x], b = V[y], after SUB Vx,Vy      *)
(* V[0xF] = 1 if a >= b and 0 otherwise, and V[x] = (a - b) mod 256.       *)
C8_SubRegAllX ==
    [][AluStep(5) =>
         LET x == nib_x(Word)
             a == v[x]
             b == v[nib_y(Word)]
         IN /\ v'[15] = (IF a >= b THEN 1 ELSE 0)
            /\ v'[x] = (a - b) % 256]_vars

(* C8, amended: after SUB Vx,Vy V[0xF] = 1 if a >= b (the values before    *)
(* the subtraction) and 0 otherwise, and V[x] = (a - b) mod 256 when x is  *)
(* not 0xF; with x = 0xF the flag overwrites the difference.  No register  *)
(* other than V[x] and V[0xF] changes.                                     *)
C8_SubReg ==
    [][AluStep(5) =>
         LET x == nib_x(Word)
             a == v[x]
             b == v[nib_y(Word)]
         IN /\ fault' = "none"
            /\ v'[15] = (IF a >= b THEN 1 ELSE 0)
            /\ x # 15 => v'[x] = (a - b) % 256
            /\ \A r \in 0..14 : r # x => v'[r] = v[r]]_vars

C8_Witness ==
    Executed /\ inst = \H8015 /\ pc = \H206 /\ v[0] = 128 /\ v[1] = 128 /\ v[15] = 0

(* C9 as stated: for every x, kk and a = V[x], ADD Vx,kk yields            *)
(* V[x] = (a + kk) mod 256 and leaves V[0xF] and every other register as   *)
(* they were.                                                              *)
C9_AddByteAllX ==
    [][(Fetching /\ top(Word) = 7) =>
         LET x == nib_x(Word)
         IN /\ v'[x] = (v[x] + low_kk(Word)) % 256
            /\ v'[15] = v[15]
            /\ \A r \in 0..15 : r # x => v'[r] = v[r]]_vars

(* C9, amended: ADD Vx,kk yields V[x] = (a + kk) mod 256 and leaves every  *)
(* register other than V[x] as it was, also when a + kk > 255; so the flag *)
(* register V[0xF] is unaffected whenever x is not 0xF, and with x = 0xF   *)
(* it receives the sum.                                                    *)
C9_AddByte ==
    [][(Fetching /\ top(Word) = 7) =>
         LET x == nib_x(Word)
         IN /\ fault' = "none"
            /\ v'[x] = (v[x] + low_kk(Word)) % 256
            /\ \A r \in 0..15 : r # x => v'[r] = v[r]]_vars

C9_Witness ==
    Executed /\ inst = \H70FF /\ pc = \H206 /\ v[0] = 254 /\ v[1] = 255 /\ v[15] = 0

(* C10 as stated: for all x, y and every value s of V[y], after SHR        *)
(* V[x] = s div 2 and V[0xF] = s mod 2, and after SHL V[x] = 2s mod 256    *)
(* and V[0xF] = s div 128.                                                 *)
C10_ShiftAllX ==
    [][(AluStep(6) \/ AluStep(14)) =>
         LET x == nib_x(Word)
             s == v[nib_y(Word)]
         IN IF nib_n(Word) = 6
            THEN v'[x] = s \div 2 /\ v'[15] = s % 2
            ELSE v'[x] = (2 * s) % 256 /\ v'[15] = s \div 128]_vars

(* C10, amended: the shifts take their operand s from V[y]: after SHR      *)
(* V[0xF] = s mod 2 and, when x is not 0xF, V[x] = s div 2; after SHL      *)
(* V[0xF] = s div 128 and, when x is not 0xF, V[x] = 2s mod 256; with      *)
(* x = 0xF the flag overwrites the shifted value.  The value V[x] held     *)
(* before does not influence the result, and no other register changes.    *)
C10_Shift ==
    [][(AluStep(6) \/ AluStep(14)) =>
         LET x == nib_x(Word)
             s == v[nib_y(Word)]
         IN /\ fault' = "none"
            /\ v'[15] = (IF nib_n(Word) = 6 THEN s % 2 ELSE s \div 128)
            /\ x # 15 => v'[x] = (IF nib_n(Word) = 6 THEN s \div 2 ELSE (2 * s) % 256)
            /\ \A r \in 0..14 : r # x => v'[r] = v[r]]_vars

C10_Witness ==
    Executed /\ inst = \H8016 /\ pc = \H206 /\ v[0] = 89 /\ v[1] = 179 /\ v[15] = 1


\* A tick() started here executes DRW Vx,Vy,n.
DrawStep == Fetching /\ top(Word) = 13

(* C11: a DRW Vx,Vy,n whose sprite lies inside the grid (V[x] + 7 <= 63,   *)
(* V[y] + n - 1 <= 31, I + n - 1 <= 0xFFF) flips the pixel                 *)
(* (V[y]+r)*64 + V[x]+c exactly when bit (7-c) of memory[I+r] is set, for  *)
(* r in 0..n-1 and c in 0..7, leaves every other pixel as it was, and      *)
(* changes no register, V[0xF] included.                                   *)
C11_DrawInside ==
    [][(/\ DrawStep
        /\ v[nib_x(Word)] + 7 <= 63
        /\ v[nib_y(Word)] + nib_n(Word) - 1 <= 31
        /\ i + nib_n(Word) - 1 <= 4095) =>
         LET vx == v[nib_x(Word)]
             vy == v[nib_y(Word)]
             flipped == {(vy + rc[1]) * 64 + vx + rc[2] :
                           rc \in {q \in (0..(nib_n(Word) - 1)) \X (0..7) :
                                     (mem_get(memory, i + q[1]) \div (2 ^ (7 - q[2]))) % 2 = 1}}
         IN /\ fault' = "none"
            /\ screen' = (screen \ flipped) \cup (flipped \ screen)
            /\ v' = v]_vars

C11_Witness ==
    /\ Executed /\ inst = \HD012 /\ pc = \H20A
    /\ v[0] = 56 /\ v[1] = 30
    /\ screen = {2040, 2043, 2046, 2047}

(* C12: a DRW Vx,Vy,n with n >= 1 in which some pixel coordinate           *)
(* (V[x]+col, V[y]+r) lies outside the 64x32 grid ends in a fault.         *)
C12_DrawOutsideFaults ==
    [][(/\ DrawStep
        /\ nib_n(Word) >= 1
        /\ \/ v[nib_x(Word)] + 7 >= 64
           \/ v[nib_y(Word)] + nib_n(Word) - 1 >= 32) =>
         fault' # "none"]_vars


\* A tick() started here executes the instruction 0xFxkk of the given kk.
FStep(kk) == Fetching /\ top(Word) = 15 /\ low_kk(Word) = kk

(* C13: register store/load round trip: LD [I],Vx, then instructions that  *)
(* change neither I nor memory[I..I+x], then LD Vx,[I] restores V[0..=x]   *)
(* to the values they had at the store; neither instruction changes I, the *)
(* store changes no register, and the load leaves the registers above x.   *)
C13_RoundTrip ==
    [][/\ (FStep(\H65) /\ saved.ok /\ saved.x = nib_x(Word)) =>
            /\ fault' = "none"
            /\ i = saved.i /\ i' = i
            /\ \A r \in 0..15 :
                 v'[r] = IF r <= saved.x THEN saved.v[r] ELSE v[r]
       /\ (FStep(\H55) /\ i + nib_x(Word) <= 4095) =>
            (fault' = "none" /\ i' = i /\ v' = v)]_vars

C13_Witness ==
    /\ Executed /\ inst = \HF165 /\ saved.ok /\ saved.x = 1 /\ saved.i = \H300
    /\ i = \H300 /\ v[0] = 7 /\ v[1] = 128 /\ v[15] = 1


(* C14: for every value s of V[x] and every I <= 0xFFD, after LD B,Vx      *)
(* memory[I], memory[I+1], memory[I+2] are the hundreds, tens and units    *)
(* digits of s, each in 0..9 with 100*memory[I] + 10*memory[I+1] +         *)
(* memory[I+2] = s, and no other memory byte, no register and not I is     *)
(* changed.                                                                *)
C14_Bcd ==
    [][(FStep(\H33) /\ i <= 4093) =>
         LET s == v[nib_x(Word)]
             h == mem_get(memory', i)
             t == mem_get(memory', i + 1)
             u == mem_get(memory', i + 2)
         IN /\ fault' = "none"
            /\ {h, t, u} \subseteq 0..9
            /\ 100 * h + 10 * t + u = s
            /\ \A a \in ((DOMAIN memory) \cup (DOMAIN memory')) \ (i..(i + 2)) :
                 mem_get(memory', a) = mem_get(memory, a)
            /\ v' = v /\ i' = i]_vars

C14_Witness ==
    /\ Executed /\ inst = \HF033 /\ v[0] = 234 /\ i = \H300
    /\ mem_get(memory, \H300) = 2 /\ mem_get(memory, \H301) = 3
    /\ mem_get(memory, \H302) = 4


\* The machine runs the image EndToEnd.
RunsEndToEnd == Running /\ memory = load(new, Bytes(EndToEnd)).c.memory

(* C15: with CLS; LD V0,5; ADD V0,10; JP 0x206 loaded at 0x200 and the     *)
(* machine reset, the first three ticks execute the instructions at 0x200, *)
(* 0x202, 0x204 and leave V[0] = 15 and every pixel false; the fourth tick *)
(* and every later one executes the JP at 0x206 without fault and leaves   *)
(* pc = 0x206 and all other state unchanged.                               *)
C15_EndToEnd ==
    [][RunsEndToEnd =>
         /\ pc \in {\H200, \H202, \H204, \H206}
         /\ fault' = "none"
         /\ pc = \H200 => (pc' = \H202 /\ inst' = \H00E0)
         /\ pc = \H202 => (pc' = \H204 /\ inst' = \H6005)
         /\ pc = \H204 => (pc' = \H206 /\ inst' = \H700A /\ v'[0] = 15 /\ screen' = {})
         /\ pc = \H206 => (inst' = \H1206 /\ UNCHANGED chipvars)]_vars

C15_Witness ==
    /\ RunsEndToEnd /\ inst = \H1206 /\ pc = \H206
    /\ v[0] = 15 /\ screen = {}


(* C16: an LD [I],Vx with I <= 0xFFF and I + x > 0xFFF faults part-way:    *)
(* at the fault pc has been advanced by 2 and memory[I..=0xFFF] holds      *)
(* V[0..=0xFFF-I], while registers, I, stack, sp and frame buffer are      *)
(* unchanged.                                                              *)
C16_PartialStore ==
    [][(FStep(\H55) /\ i <= 4095 /\ i + nib_x(Word) > 4095) =>
         /\ fault' = "index"
         /\ pc' = pc + 2
         /\ \A a \in i..4095 : mem_get(memory', a) = v[a - i]
         /\ UNCHANGED <<v, i, stack, sp, screen>>]_vars

C16_Witness ==
    /\ phase = "running" /\ fault = "index" /\ inst = \HF155 /\ pc = \H206
    /\ i = \HFFF /\ v[0] = 255 /\ mem_get(memory, \HFFF) = 255

(* C17: for every x and every state with I + V[x] <= 0xFFFF, ADD I,Vx sets *)
(* I to exactly I + V[x], not cut to 12 bits, and changes no register.     *)
C17_AddI ==
    [][(FStep(\H1E) /\ i + v[nib_x(Word)] <= 65535) =>
         /\ fault' = "none"
         /\ i' = i + v[nib_x(Word)]
         /\ v' = v]_vars

C17_Witness == Executed /\ inst = \HF01E /\ i = \H10FE /\ v[0] = 255 /\ v[15] = 0


(* C18: no tick() changes the delay timer or the sound timer, whatever     *)
(* instruction it executes; hence in every state reached from reset() by   *)
(* ticks both timers are 0.                                                *)
C18_TimersStayZero ==
    [][/\ phase = "running" => UNCHANGED <<delay_timer, sound_timer>>
       /\ phase' = "running" => delay_timer' = 0 /\ sound_timer' = 0]_vars

C18_Witness ==
    /\ phase = "running" /\ fault = "panic" /\ inst = \HF015
    /\ v[0] = 255 /\ delay_timer = 0 /\ sound_timer = 0

C20_MemoryWriters ==
    [][Running =>
         /\ ~(FStep(\H33) \/ FStep(\H55)) => memory' = memory
         /\ FStep(\H33) =>
              \A a \in ((DOMAIN memory) \cup (DOMAIN memory')) \ (i..(i + 2)) :
                  mem_get(memory', a) = mem_get(memory, a)
         /\ FStep(\H55) =>
              \A a \in ((DOMAIN memory) \cup (DOMAIN memory')) \ (i..(i + nib_x(Word))) :
                  mem_get(memory', a) = mem_get(memory, a)]_vars

C20_Witness ==
    /\ Executed /\ inst = \HF033 /\ i = \H300
    /\ mem_get(memory, \H300) = 2 /\ mem_get(memory, \H301) = 3
    /\ mem_get(memory, \H302) = 4 /\ mem_get(memory, \H303) = 0

====
